---- MODULE Spec2Model ----
(***************************************************************************)
(* Model of src/src/MinPQ.ts (class MinPQ<Key>, an array-backed binary     *)
(* heap ported from the algs4 Java MinPQ) and of the script that drives it *)
(* (src/unnamed/part_000).                                                 *)
(*                                                                         *)
(* The program is JavaScript, so the model keeps what JavaScript does:     *)
(*   - numbers are not integers: k/2 for odd k is a fraction, and an array *)
(*     read at a fractional or out-of-range position yields undefined;     *)
(*   - new Array(c) throws a RangeError when c is not an integer;          *)
(*   - an array is an object with a length and a set of own properties;    *)
(*   - objects hold references: this.pq is the address of an array.        *)
(***************************************************************************)
EXTENDS Integers, Sequences, FiniteSets, TLC

VARIABLES
    mem,        \* array store: address -> JavaScript array
    obj,        \* MinPQ objects: name -> [pq (address), n, comparator]
    result,     \* outcome of the last call: [op, on, status, value]
    inserted,   \* per queue, the number of insert calls that returned
    extracted,  \* per queue, the number of delMin calls that returned a key
    drained,    \* keys returned by delMin on "a" since "a" was last filled
    mode,       \* "fill": only inserts so far; "drain": then only delMins; "mixed"
    gen,        \* the generator of a[Symbol.iterator](): [pc, dirty, snap]
    out,        \* items the running for-of loop has received so far
    runs,       \* outputs of the for-of loops completed on the current state of "a"
    loop        \* the swim or sink loop a call on "a" is in: [pc, k]

vars == <<mem, obj, result, inserted, extracted, drained, mode, gen, out, runs, loop>>

(***************************************************************************)
(* Bounds of the model.                                                    *)
(***************************************************************************)
MaxKey     == 2     \* keys are the numbers 1..MaxKey
MaxInserts == 3     \* insert calls per run, all queues together
MaxInitCap == 5     \* initCapacity ranges over undefined and 0..MaxInitCap
MaxAddr    == 5     \* addresses of the array store

Keys  == 1..MaxKey
Addrs == 1..MaxAddr

(***************************************************************************)
(* JavaScript values.  Keys are numbers; undefined is a value of its own   *)
(* (what a hole, a missing property or a missing argument reads as).       *)
(***************************************************************************)
Undefined == -1

(* Numbers used as indices and capacities: the rational num/den, den a     *)
(* power of two, in lowest terms.  Num(3) is 3; Half(Num(3)) is 3/2.       *)
Num(i) == <<i, 1>>

Half(q) == IF q[1] % 2 = 0 THEN <<q[1] \div 2, q[2]>> ELSE <<q[1], 2 * q[2]>>

IsInteger(q) == q[2] = 1

GreaterThanOne(q) == q[1] > q[2]

(***************************************************************************)
(* JavaScript arrays: a length and the own properties (position -> value). *)
(***************************************************************************)
NewArray(len) == [length |-> len, el |-> [i \in {} |-> Undefined]]

\* new Array(c) throws RangeError unless c is an integer in 0..2^32-1
NewArrayThrows(c) == ~IsInteger(c) \/ c[1] < 0

Get(arr, i) == IF i \in DOMAIN arr.el THEN arr.el[i] ELSE Undefined

Put(arr, i, v) ==
    [length |-> IF IsInteger(i) /\ i[1] >= arr.length THEN i[1] + 1 ELSE arr.length,
     el     |-> [j \in (DOMAIN arr.el) \cup {i} |-> IF j = i THEN v ELSE arr.el[j]]]

\* a copy that drops the unused slot 0: arr.slice(1)
SpreadFromOne(arr) ==
    [length |-> arr.length - 1,
     el     |-> [j \in {Num(i) : i \in 0..(arr.length - 2)} |-> Get(arr, Num(j[1] + 1))]]

\* [...arr]: a new dense array of the same length; holes become undefined
Spread(arr) ==
    [length |-> arr.length,
     el     |-> [j \in {Num(i) : i \in 0..(arr.length - 1)} |-> Get(arr, j)]]

(***************************************************************************)
(* The comparator.  The only comparator of the repository is the script's  *)
(* (a, b) => a - b; on undefined it yields NaN.                            *)
(***************************************************************************)
Comparators == {"minus"}

\* with it an inconsistent comparator, (a, b) => 1, that calls every key
\* (and undefined) greater than every other
AllComparators == Comparators \cup {"one"}

comparator(c, a, b) ==
    IF c = "one" THEN [nan |-> FALSE, val |-> 1]
    ELSE IF a = Undefined \/ b = Undefined
    THEN [nan |-> TRUE, val |-> 0]
    ELSE [nan |-> FALSE, val |-> a - b]

\* r > 0 in JavaScript: false for NaN
Positive(r) == ~r.nan /\ r.val > 0

(***************************************************************************)
(* The store.  A state of the objects is s = [mem, obj].                   *)
(***************************************************************************)
Alloc(s) == CHOOSE a \in Addrs \ DOMAIN s.mem :
                \A b \in Addrs \ DOMAIN s.mem : a <= b

\* arrays no object refers to are collected
Collect(s) ==
    LET live == {s.obj[h].pq : h \in DOMAIN s.obj}
    IN  [mem |-> [a \in live |-> s.mem[a]], obj |-> s.obj]

PqOf(s, this) == s.mem[s.obj[this].pq]

ReadPq(s, this, i) == Get(PqOf(s, this), i)

WritePq(s, this, i, v) ==
    [s EXCEPT !.mem[s.obj[this].pq] = Put(@, i, v)]

Length(s, this) == PqOf(s, this).length

(***************************************************************************)
(* The methods of MinPQ.  Each takes the store s and the object `this`     *)
(* and yields the store it leaves; those that can throw or return a value  *)
(* yield [s, err, value], err being "none" or the error thrown.            *)
(***************************************************************************)
Ok(s, v)      == [s |-> s, err |-> "none", value |-> v]
Throw(s, e)   == [s |-> s, err |-> e, value |-> Undefined]

\* constructor(comparator, initCapacity?): this.pq = new Array(initCapacity || 1)
constructor(s, this, c, initCapacity) ==
    LET cap == IF initCapacity = Undefined \/ initCapacity = 0 THEN 1 ELSE initCapacity
        a   == Alloc(s)
    IN  IF NewArrayThrows(Num(cap)) THEN Throw(s, "RangeError")
        ELSE Ok([mem |-> [x \in (DOMAIN s.mem) \cup {a} |->
                             IF x = a THEN NewArray(cap) ELSE s.mem[x]],
                 obj |-> [h \in (DOMAIN s.obj) \cup {this} |->
                             IF h = this THEN [pq |-> a, n |-> 0, comparator |-> c]
                             ELSE s.obj[h]]],
                Undefined)

isEmpty(s, this) == s.obj[this].n = 0

size(s, this) == s.obj[this].n

min(s, this) ==
    IF isEmpty(s, this) THEN Throw(s, "Priority queue underflow")
    ELSE Ok(s, ReadPq(s, this, Num(1)))

\* for (i = 1; i <= n; i++) temp[i] = pq[i]
RECURSIVE ResizeLoop(_, _, _, _)
ResizeLoop(temp, pq, i, n) ==
    IF i <= n THEN ResizeLoop(Put(temp, Num(i), Get(pq, Num(i))), pq, i + 1, n)
    ELSE temp

\* resize(capacity): capacity is a JavaScript number, not always an integer
resize(s, this, capacity) ==
    IF NewArrayThrows(capacity) THEN Throw(s, "RangeError")
    ELSE LET a    == Alloc(s)
             temp == ResizeLoop(NewArray(capacity[1]), PqOf(s, this), 1, s.obj[this].n)
         IN  Ok([mem |-> [x \in (DOMAIN s.mem) \cup {a} |->
                             IF x = a THEN temp ELSE s.mem[x]],
                 obj |-> [s.obj EXCEPT ![this].pq = a]],
                Undefined)

greater(s, this, i, j) ==
    Positive(comparator(s.obj[this].comparator, ReadPq(s, this, i), ReadPq(s, this, j)))

exch(s, this, i, j) ==
    LET swap == ReadPq(s, this, i)
        s1   == WritePq(s, this, i, ReadPq(s, this, j))
    IN  WritePq(s1, this, j, swap)

\* a swim that forgets k = k/2
swimStay(k) == k

\* k = k/2
swimNext(k) == Half(k)

\* k > 1 && greater(k/2, k)
swimTest(s, this, k) == GreaterThanOne(k) /\ greater(s, this, Half(k), k)

\* while (k > 1 && greater(k/2, k)) { exch(k, k/2); k = k/2 }
RECURSIVE swim(_, _, _)
swim(s, this, k) ==
    IF swimTest(s, this, k)
    THEN swim(exch(s, this, k, Half(k)), this, swimNext(k))
    ELSE s

\* while (2k <= n) { j = 2k; if (j < n && greater(j, j+1)) j++;
\*                   if (!greater(k, j)) break; exch(k, j); k = j }
\* j = 2k; if (j < n && greater(j, j+1)) j++
sinkChild(s, this, k) ==
    IF 2 * k < s.obj[this].n /\ greater(s, this, Num(2 * k), Num(2 * k + 1))
    THEN 2 * k + 1 ELSE 2 * k

\* 2k <= n and the loop does not break: greater(k, j)
sinkTest(s, this, k) ==
    2 * k <= s.obj[this].n /\ greater(s, this, Num(k), Num(sinkChild(s, this, k)))

RECURSIVE sink(_, _, _)
sink(s, this, k) ==
    IF sinkTest(s, this, k)
    THEN sink(exch(s, this, Num(k), Num(sinkChild(s, this, k))), this,
              sinkChild(s, this, k))
    ELSE s

\* an insert that grows the array one insert late: if (this.n == this.pq.length)
insertGrowLate(s, this, x) ==
    LET n  == s.obj[this].n
        r1 == IF n = Length(s, this)
              THEN resize(s, this, Num(2 * Length(s, this)))
              ELSE Ok(s, Undefined)
    IN  IF r1.err # "none" THEN r1
        ELSE LET s2 == [r1.s EXCEPT !.obj[this].n = n + 1]
                 s3 == WritePq(s2, this, Num(n + 1), x)
             IN  Ok(swim(s3, this, Num(n + 1)), Undefined)

\* insert up to the call of swim: the resize and this.pq[++this.n] = x
insertPlace(s, this, x) ==
    LET n  == s.obj[this].n
        r1 == IF n = Length(s, this) - 1
              THEN resize(s, this, Num(2 * Length(s, this)))
              ELSE Ok(s, Undefined)
    IN  IF r1.err # "none" THEN r1
        ELSE Ok(WritePq([r1.s EXCEPT !.obj[this].n = n + 1], this, Num(n + 1), x),
                Undefined)

insert(s, this, x) ==
    LET r == insertPlace(s, this, x)
    IN  IF r.err # "none" THEN r
        ELSE Ok(swim(r.s, this, Num(r.s.obj[this].n)), Undefined)

\* n == (pq.length - 1) / 4, compared as JavaScript numbers
QuarterFull(s, this) ==
    Num(s.obj[this].n) = Half(Half(Num(Length(s, this) - 1)))

\* delMin up to the call of sink: this.exch(1, this.n--)
delMinExch(s, this) ==
    exch([s EXCEPT !.obj[this].n = @ - 1], this, Num(1), Num(s.obj[this].n))

\* delMin after sink: this.pq[this.n+1] = this.pq[this.n], the shrink, return min
delMinFinish(s, this, m) ==
    LET n  == s.obj[this].n
        s3 == WritePq(s, this, Num(n + 1), ReadPq(s, this, Num(n)))
        r4 == IF s3.obj[this].n > 0 /\ QuarterFull(s3, this)
              THEN resize(s3, this, Half(Num(Length(s3, this))))
              ELSE Ok(s3, Undefined)
    IN  IF r4.err # "none" THEN r4 ELSE Ok(r4.s, m)

\* delMin from `var min = this.pq[1]` on
delMinBody(s, this) ==
    delMinFinish(sink(delMinExch(s, this), this, 1), this, ReadPq(s, this, Num(1)))

\* a delMin that throws on an empty queue only after it has decremented n
delMinLateCheck(s, this) ==
    IF isEmpty(s, this)
    THEN Throw([s EXCEPT !.obj[this].n = @ - 1], "Priority queue underflow")
    ELSE delMinBody(s, this)

delMin(s, this) ==
    IF isEmpty(s, this) THEN Throw(s, "Priority queue underflow")
    ELSE delMinBody(s, this)

\* a copy() that shares the array: copy.pq = this.pq
copyShared(s, this, new) ==
    LET r1 == constructor(s, new, s.obj[this].comparator, 0)
    IN  Ok([mem |-> r1.s.mem,
            obj |-> [r1.s.obj EXCEPT ![new].pq = s.obj[this].pq,
                                     ![new].n = s.obj[this].n]],
           Undefined)

\* copy(): new MinPQ(this.comparator, 0); copy.pq = [...this.pq]; copy.n = this.n
copy(s, this, new) ==
    LET r1 == constructor(s, new, s.obj[this].comparator, 0)
        a  == Alloc(r1.s)
    IN  Ok([mem |-> [x \in (DOMAIN r1.s.mem) \cup {a} |->
                        IF x = a THEN Spread(PqOf(s, this)) ELSE r1.s.mem[x]],
            obj |-> [r1.s.obj EXCEPT ![new].pq = a, ![new].n = s.obj[this].n]],
           Undefined)

(***************************************************************************)
(* The generator *[Symbol.iterator]() and the for-of loop that drives it.  *)
(* The generator's local `copy` is the object "c".  A yield hands the      *)
(* yielded value to the loop as one item; every value the generator yields *)
(* is an object literal, {value, done} or {done}.                          *)
(***************************************************************************)
MaxRuns == 2        \* for-of loops recorded on one state of "a"

\* no generator: snap is the count and the array "a" had when the generator
\* was obtained (history, read by no action)
NoGen == [pc |-> "none", dirty |-> FALSE, snap |-> <<0, NewArray(0)>>]

ObjectItem(v, d) == [type |-> "object", value |-> v, done |-> d]

Drop(s, h) == [mem |-> s.mem, obj |-> [x \in (DOMAIN s.obj) \ {h} |-> s.obj[x]]]

(***************************************************************************)
(* Initial states: a = new MinPQ(comparator, initCapacity?).               *)
(***************************************************************************)
InitCaps == {Undefined} \cup (0..MaxInitCap)

Empty == [mem |-> [x \in {} |-> NewArray(0)], obj |-> [h \in {} |-> 0]]

NoResult == [op |-> "new", on |-> "a", status |-> "none", value |-> Undefined]

Idle == [pc |-> "idle", k |-> Num(0)]

InitWith(cs) ==
    \E c \in cs, cap \in InitCaps :
        LET r == constructor(Empty, "a", c, cap)
        IN  /\ r.err = "none"
            /\ mem = Collect(r.s).mem
            /\ obj = Collect(r.s).obj
            /\ result = NoResult
            /\ inserted = [h \in {"a", "b"} |-> 0]
            /\ extracted = [h \in {"a", "b"} |-> 0]
            /\ drained = << >>
            /\ mode = "fill"
            /\ gen = NoGen
            /\ out = << >>
            /\ runs = << >>
            /\ loop = Idle

Init == InitWith(Comparators)

Here == [mem |-> mem, obj |-> obj]

Store(s) ==
    /\ mem' = Collect(s).mem
    /\ obj' = Collect(s).obj

\* a call that changed "a": a running loop is no longer on the state it began on
Touched(h) ==
    IF h = "a"
    THEN /\ gen' = [gen EXCEPT !.dirty = (gen.pc # "none")]
         /\ runs' = << >>
    ELSE UNCHANGED <<gen, runs>>

(***************************************************************************)
(* Calls made by the script on the queues "a" and "b".                     *)
(***************************************************************************)
Insert(h, x) ==
    /\ h \in (DOMAIN obj) \ {"c"}
    /\ inserted["a"] + inserted["b"] < MaxInserts
    /\ LET r == insert(Here, h, x)
       IN  /\ Store(r.s)
           /\ result' = [op |-> "insert", on |-> h, status |-> r.err, value |-> r.value]
           /\ inserted' = IF r.err = "none" THEN [inserted EXCEPT ![h] = @ + 1]
                          ELSE inserted
           /\ IF h = "a"
              THEN /\ drained' = << >>
                   /\ mode' = IF mode = "fill" \/ obj[h].n = 0 THEN "fill" ELSE "mixed"
              ELSE UNCHANGED <<drained, mode>>
           /\ Touched(h)
    /\ UNCHANGED <<extracted, out, loop>>

DelMin(h) ==
    /\ h \in (DOMAIN obj) \ {"c"}
    /\ LET r == delMin(Here, h)
       IN  /\ Store(r.s)
           /\ result' = [op |-> "delMin", on |-> h, status |-> r.err, value |-> r.value]
           /\ extracted' = IF r.err = "none" THEN [extracted EXCEPT ![h] = @ + 1]
                           ELSE extracted
           /\ IF h = "a" /\ ~isEmpty(Here, h)
              THEN /\ drained' = IF r.err = "none" THEN Append(drained, r.value)
                                 ELSE drained
                   /\ mode' = IF mode = "fill" THEN "drain" ELSE mode
              ELSE UNCHANGED <<drained, mode>>
           /\ IF isEmpty(Here, h) THEN UNCHANGED <<gen, runs>> ELSE Touched(h)
    /\ UNCHANGED <<inserted, out, loop>>

Min(h) ==
    /\ h \in (DOMAIN obj) \ {"c"}
    /\ LET r == min(Here, h)
       IN  /\ Store(r.s)
           /\ result' = [op |-> "min", on |-> h, status |-> r.err, value |-> r.value]
    /\ UNCHANGED <<inserted, extracted, drained, mode, gen, out, runs, loop>>

\* b = a.copy()
Copy ==
    /\ "b" \notin DOMAIN obj
    /\ LET r == copy(Here, "a", "b")
       IN  /\ Store(r.s)
           /\ result' = [op |-> "copy", on |-> "a", status |-> r.err, value |-> r.value]
    /\ UNCHANGED <<inserted, extracted, drained, mode, gen, out, runs, loop>>

(***************************************************************************)
(* for (var el of a) ...: Iterator obtains the generator, each GenNext is  *)
(* one next() call of the loop.                                            *)
(***************************************************************************)
Iterator ==
    /\ gen.pc = "none"
    /\ Len(runs) < MaxRuns
    /\ gen' = [pc |-> "start", dirty |-> FALSE, snap |-> <<obj["a"].n, mem[obj["a"].pq]>>]
    /\ out' = << >>
    /\ result' = [op |-> "iterator", on |-> "a", status |-> "none", value |-> Undefined]
    /\ UNCHANGED <<mem, obj, inserted, extracted, drained, mode, runs, loop>>

\* the generator's body from the loop test on: while (!copy.isEmpty()) yield ...
GenLoop(s) ==
    IF ~isEmpty(s, "c")
    THEN LET r == delMin(s, "c")
         IN  IF r.err # "none"
             THEN /\ Store(Drop(r.s, "c"))
                  /\ gen' = NoGen
                  /\ out' = out
                  /\ result' = [op |-> "next", on |-> "a", status |-> r.err,
                                value |-> Undefined]
             ELSE /\ Store(r.s)
                  /\ gen' = [gen EXCEPT !.pc = "loop"]
                  /\ out' = Append(out, ObjectItem(r.value, FALSE))
                  /\ result' = [op |-> "next", on |-> "a", status |-> "none",
                                value |-> r.value]
    ELSE /\ Store(s)
         /\ gen' = [gen EXCEPT !.pc = "final"]
         /\ out' = Append(out, ObjectItem(Undefined, TRUE))
         /\ result' = [op |-> "next", on |-> "a", status |-> "none", value |-> Undefined]

GenNext ==
    /\ gen.pc \in {"start", "loop"}
    /\ GenLoop(IF gen.pc = "start" THEN copy(Here, "a", "c").s ELSE Here)
    /\ UNCHANGED <<inserted, extracted, drained, mode, runs, loop>>

\* the generator returns: next() answers done, the loop ends
GenReturn ==
    /\ gen.pc = "final"
    /\ Store(Drop(Here, "c"))
    /\ gen' = NoGen
    /\ runs' = IF gen.dirty THEN runs ELSE Append(runs, out)
    /\ result' = [op |-> "done", on |-> "a", status |-> "none", value |-> Undefined]
    /\ UNCHANGED <<inserted, extracted, drained, mode, out, loop>>

(***************************************************************************)
(* insert and delMin on "a" one loop iteration at a time: a Begin action   *)
(* runs the call up to its loop, each Step is one evaluation of the loop   *)
(* condition with the body it guards, and the Step that leaves the loop    *)
(* runs the rest of the call.                                              *)
(***************************************************************************)
InsertBegin(x) ==
    /\ loop.pc = "idle"
    /\ inserted["a"] + inserted["b"] < MaxInserts
    /\ LET r == insertPlace(Here, "a", x)
       IN  /\ Store(r.s)
           /\ IF r.err # "none"
              THEN /\ loop' = Idle
                   /\ result' = [op |-> "insert", on |-> "a", status |-> r.err,
                                 value |-> Undefined]
              ELSE /\ loop' = [pc |-> "swim", k |-> Num(r.s.obj["a"].n)]
                   /\ result' = [op |-> "insert", on |-> "a", status |-> "running",
                                 value |-> Undefined]
    /\ UNCHANGED <<inserted, extracted, drained, mode, gen, out, runs>>

SwimStep ==
    /\ loop.pc = "swim"
    /\ IF swimTest(Here, "a", loop.k)
       THEN /\ Store(exch(Here, "a", loop.k, Half(loop.k)))
            /\ loop' = [loop EXCEPT !.k = swimNext(loop.k)]
            /\ UNCHANGED <<result, inserted>>
       ELSE /\ loop' = Idle
            /\ result' = [result EXCEPT !.status = "none"]
            /\ inserted' = [inserted EXCEPT !["a"] = @ + 1]
            /\ UNCHANGED <<mem, obj>>
    /\ UNCHANGED <<extracted, drained, mode, gen, out, runs>>

DelMinBegin ==
    /\ loop.pc = "idle"
    /\ IF isEmpty(Here, "a")
       THEN /\ result' = [op |-> "delMin", on |-> "a",
                          status |-> "Priority queue underflow", value |-> Undefined]
            /\ UNCHANGED <<mem, obj, loop>>
       ELSE /\ Store(delMinExch(Here, "a"))
            /\ loop' = [pc |-> "sink", k |-> Num(1)]
            /\ result' = [op |-> "delMin", on |-> "a", status |-> "running",
                          value |-> ReadPq(Here, "a", Num(1))]
    /\ UNCHANGED <<inserted, extracted, drained, mode, gen, out, runs>>

SinkStep ==
    /\ loop.pc = "sink"
    /\ IF sinkTest(Here, "a", loop.k[1])
       THEN /\ Store(exch(Here, "a", loop.k, Num(sinkChild(Here, "a", loop.k[1]))))
            /\ loop' = [loop EXCEPT !.k = Num(sinkChild(Here, "a", loop.k[1]))]
            /\ UNCHANGED <<result, extracted>>
       ELSE LET r == delMinFinish(Here, "a", result.value)
            IN  /\ Store(r.s)
                /\ loop' = Idle
                /\ result' = [result EXCEPT !.status = r.err, !.value = r.value]
                /\ extracted' = IF r.err = "none" THEN [extracted EXCEPT !["a"] = @ + 1]
                                ELSE extracted
    /\ UNCHANGED <<inserted, drained, mode, gen, out, runs>>


(***************************************************************************)
(* Specifications.                                                         *)
(*   Spec     : one queue, insert / delMin / min                           *)
(*   SpecCopy : the queue and one copy of it, both used                    *)
(*   SpecIter : the queue and for-of loops over it                         *)
(*   SpecSteps: the queue, with swim and sink one iteration at a time      *)
(***************************************************************************)
Next ==
    \/ \E x \in Keys : Insert("a", x)
    \/ DelMin("a")
    \/ Min("a")

Spec == Init /\ [][Next]_vars

NextCopy ==
    \/ \E h \in {"a", "b"}, x \in Keys : Insert(h, x)
    \/ \E h \in {"a", "b"} : DelMin(h)
    \/ Copy

SpecCopy == Init /\ [][NextCopy]_vars

NextIter ==
    \/ \E x \in Keys : Insert("a", x)
    \/ DelMin("a")
    \/ Min("a")
    \/ Iterator
    \/ GenNext
    \/ GenReturn

SpecIter == Init /\ [][NextIter]_vars

\* the calls step by step, under every comparator; a call that has begun runs
\* on (JavaScript runs it to completion), so its loop steps are weakly fair
InitSteps == InitWith(AllComparators)

NextSteps ==
    \/ \E x \in Keys : InsertBegin(x)
    \/ SwimStep
    \/ DelMinBegin
    \/ SinkStep

SpecSteps == InitSteps /\ [][NextSteps]_vars /\ WF_vars(SwimStep) /\ WF_vars(SinkStep)

(***************************************************************************)
(* Vocabulary of the properties.                                           *)
(***************************************************************************)
\* comparator(a, b) <= 0 in JavaScript: false for NaN
NonPositive(r) == ~r.nan /\ r.val <= 0

LessEq(h, a, b) == NonPositive(comparator(obj[h].comparator, a, b))

\* the key at position i of queue h
At(h, i) == Get(mem[obj[h].pq], Num(i))

\* the keys queue h holds
Held(h) == {At(h, i) : i \in 1..obj[h].n}

\* what copy independence protects: the count and the array of queue h
Contents(h) == <<obj[h].n, mem[obj[h].pq]>>

Underflow == "Priority queue underflow"

\* the values a for-of loop received in items that carry one
Values(items) == SelectSeq(items, LAMBDA it : ~it.done)

Ascending(h, seq) ==
    \A i \in 1..(Len(seq) - 1) : LessEq(h, seq[i].value, seq[i + 1].value)

(***************************************************************************)
(* C1. Heap invariant: in every state reached from the empty queue by      *)
(* insert and delMin calls, every position k in 1..n compares <= its       *)
(* children 2k and 2k+1 that are <= n.                                     *)
(***************************************************************************)
C1_HeapInvariant ==
    \A k \in 1..obj["a"].n :
        /\ 2 * k <= obj["a"].n => LessEq("a", At("a", k), At("a", 2 * k))
        /\ 2 * k + 1 <= obj["a"].n => LessEq("a", At("a", k), At("a", 2 * k + 1))

(***************************************************************************)
(* C2. Sorted extraction: keys inserted into an empty queue and then       *)
(* removed by repeated delMin come out in non-decreasing order.            *)
(***************************************************************************)
C2_SortedExtraction ==
    mode = "drain" =>
        \A i \in 1..(Len(drained) - 1) : LessEq("a", drained[i], drained[i + 1])

(***************************************************************************)
(* C3. min() and delMin() on a non-empty queue return a smallest key: the  *)
(* key returned compares <= every key the queue held when it was called.   *)
(***************************************************************************)
C3_ReturnsSmallest ==
    [][(/\ result'.op \in {"min", "delMin"}
        /\ result'.on = "a"
        /\ result'.status = "none")
       => \A x \in Held("a") : LessEq("a", result'.value, x)]_vars

(***************************************************************************)
(* C4. Underflow on an empty queue is the only failure: no call ends with  *)
(* any other error, whatever the initial capacity.                         *)
(***************************************************************************)
C4_OnlyUnderflow ==
    result.status \in {"none", Underflow}

(***************************************************************************)
(* C5. Size accounting: size() is the number of inserts that returned      *)
(* minus the number of delMin calls that returned a key, and isEmpty() is  *)
(* true exactly when size() is 0.                                          *)
(***************************************************************************)
C5_SizeAccounting ==
    /\ size(Here, "a") = inserted["a"] - extracted["a"]
    /\ isEmpty(Here, "a") <=> (size(Here, "a") = 0)

(***************************************************************************)
(* C6. Underflow: min() and delMin() called with n = 0 fail with the       *)
(* underflow error and leave the count, the array and its length as they   *)
(* were.                                                                   *)
(***************************************************************************)
C6_Underflow ==
    [][(/\ result'.op \in {"min", "delMin"}
        /\ result'.on = "a"
        /\ obj["a"].n = 0)
       => /\ result'.status = Underflow
          /\ obj' = obj
          /\ mem' = mem]_vars

\* delMin has just failed with underflow on a queue that was used and drained
C6_Witness ==
    /\ result.op = "delMin"
    /\ result.status = Underflow
    /\ inserted["a"] > 0
    /\ extracted["a"] = inserted["a"]

(***************************************************************************)
(* C7. A for-of loop over the queue receives exactly n items, n the size   *)
(* when the loop started, and every item is a key of the queue.            *)
(***************************************************************************)
C7_TraversalItems ==
    \A r \in 1..Len(runs) :
        /\ Len(runs[r]) = obj["a"].n
        /\ \A i \in 1..Len(runs[r]) :
              /\ runs[r][i].type = "number"
              /\ runs[r][i].value \in Held("a")

(***************************************************************************)
(* C8. Traversal is non-destructive and restartable: two for-of loops over *)
(* the same state of the queue receive the same ascending sequence, and no *)
(* step of a loop changes the queue's count or array.                      *)
(***************************************************************************)
C8_Traversal ==
    [][/\ result'.op \in {"iterator", "next", "done"} => Contents("a")' = Contents("a")
       /\ \A r \in 1..Len(runs') :
             /\ runs'[r] = runs'[1]
             /\ Ascending("a", Values(runs'[r]))]_vars

(***************************************************************************)
(* C9. Copy independence: after b = a.copy(), insert and delMin calls on a *)
(* leave b's count and array unchanged, and calls on b leave a's.          *)
(***************************************************************************)
C9_CopyIndependence ==
    [][("b" \in DOMAIN obj /\ result'.op \in {"insert", "delMin"})
       => /\ result'.on = "a" => Contents("b")' = Contents("b")
          /\ result'.on = "b" => Contents("a")' = Contents("a")]_vars

\* both queues were changed after the copy, and they differ
C9_Witness ==
    /\ "b" \in DOMAIN obj
    /\ inserted["b"] > 0
    /\ result.op = "delMin" /\ result.on = "a" /\ result.status = "none"
    /\ obj["b"].n > obj["a"].n
    /\ obj["a"].n > 0

(***************************************************************************)
(* C10. Shrink policy: a delMin that leaves n >= 1 keys with n at most a   *)
(* quarter of the array length leaves the array half as long as before.    *)
(***************************************************************************)
C10_ShrinkPolicy ==
    [][(/\ result'.op = "delMin"
        /\ result'.on = "a"
        /\ result'.status # Underflow
        /\ obj'["a"].n >= 1
        /\ 4 * obj'["a"].n <= mem[obj["a"].pq].length)
       => 2 * mem'[obj'["a"].pq].length = mem[obj["a"].pq].length]_vars

(***************************************************************************)
(* C11. Capacity invariant and growth: for every initial capacity and for  *)
(* copies too, the array length of every queue is a positive integer       *)
(* >= n + 1; insert doubles the length exactly when n = length - 1 before  *)
(* the call and otherwise leaves it as it was.                             *)
(***************************************************************************)
CapacityOk(h) == mem[obj[h].pq].length >= 1 /\ mem[obj[h].pq].length >= obj[h].n + 1

C11_Capacity ==
    /\ \A h \in DOMAIN obj : CapacityOk(h)
    /\ [][/\ \A h \in DOMAIN obj' : CapacityOk(h)'
          /\ \A h \in DOMAIN obj :
                (result'.op = "insert" /\ result'.on = h)
                => mem'[obj'[h].pq].length =
                      IF obj[h].n = mem[obj[h].pq].length - 1
                      THEN 2 * mem[obj[h].pq].length
                      ELSE mem[obj[h].pq].length]_vars

\* an insert into the copy has just doubled an array beyond every initial capacity
C11_Witness ==
    /\ result.op = "insert" /\ result.on = "b" /\ result.status = "none"
    /\ mem[obj["b"].pq].length = 2 * obj["b"].n
    /\ mem[obj["b"].pq].length > MaxInitCap

(***************************************************************************)
(* C13. delMin clears the slot it vacates: in every state no position      *)
(* above n holds a key.                                                    *)
(***************************************************************************)
C13_SlotCleared ==
    \A i \in (obj["a"].n + 1)..(mem[obj["a"].pq].length - 1) : At("a", i) = Undefined

(***************************************************************************)
(* C15. copy() returns a queue with the same n, the same comparator and    *)
(* the same key at every position 1..n, and leaves the original's n and    *)
(* array as they were.                                                     *)
(***************************************************************************)
C15_CopySame ==
    [][result'.op = "copy"
       => /\ obj'["b"].n = obj["a"].n
          /\ obj'["b"].comparator = obj["a"].comparator
          /\ \A i \in 1..obj["a"].n : At("b", i)' = At("a", i)
          /\ Contents("a")' = Contents("a")]_vars

\* a queue that was filled and drained in part has just been copied
C15_Witness ==
    /\ result.op = "copy"
    /\ obj["b"].n >= 2
    /\ extracted["a"] >= 1

\* the number of positions 1..n of queue h that hold v
Count(h, v) == Cardinality({i \in 1..obj[h].n : At(h, i) = v})

(***************************************************************************)
(* C17. Element conservation: the keys at positions 1..n are the keys      *)
(* inserted less the keys delMin returned.  Step by step: an insert adds   *)
(* one key and nothing else, a delMin that returns a key removes exactly   *)
(* that key, and no other call (a failing one included) changes the keys   *)
(* held.                                                                   *)
(***************************************************************************)
C17_Conservation ==
    [][IF result'.op = "insert" /\ result'.status = "none"
       THEN \E x \in Keys :
               \A v \in Keys \cup {Undefined} :
                  Count("a", v)' = Count("a", v) + (IF v = x THEN 1 ELSE 0)
       ELSE IF result'.op = "delMin" /\ result'.status = "none"
       THEN \A v \in Keys \cup {Undefined} :
               Count("a", v) = Count("a", v)' + (IF v = result'.value THEN 1 ELSE 0)
       ELSE \A v \in Keys \cup {Undefined} : Count("a", v)' = Count("a", v)]_vars

(***************************************************************************)
(* C14. Traversal snapshot isolation: a for-of traversal yields what the   *)
(* queue held when the traversal was obtained; insert and delMin calls on  *)
(* the queue between obtaining it and its last item do not change the      *)
(* sequence it yields.                                                     *)
(***************************************************************************)
\* a queue "c" of its own holding the count and array of a snapshot
SnapStore(snap, c) ==
    [mem |-> [x \in {1} |-> snap[2]],
     obj |-> [h \in {"c"} |-> [pq |-> 1, n |-> snap[1], comparator |-> c]]]

\* what repeated delMin yields from the store s until "c" is empty
RECURSIVE Drain(_)
Drain(s) ==
    IF isEmpty(s, "c") THEN << >>
    ELSE LET r == delMin(s, "c")
         IN  IF r.err # "none" THEN << >> ELSE <<r.value>> \o Drain(r.s)

Yielded(items) == [i \in 1..Len(Values(items)) |-> Values(items)[i].value]

C14_SnapshotIsolation ==
    gen.pc = "final" =>
        Yielded(out) = Drain(SnapStore(gen.snap, obj["a"].comparator))

(***************************************************************************)
(* C12. Every position swim and sink compare or swap is an integer in      *)
(* 1..n: the parent of k is floor(k/2), the children are 2k and 2k+1.      *)
(* (Stated for the consistent comparator.)                                 *)
(***************************************************************************)
\* the positions the next loop step hands to greater and exch
Touches ==
    IF loop.pc = "swim" /\ GreaterThanOne(loop.k)
    THEN {Half(loop.k), loop.k}
    ELSE IF loop.pc = "sink" /\ 2 * loop.k[1] <= obj["a"].n
    THEN {loop.k, Num(2 * loop.k[1])}
         \cup (IF 2 * loop.k[1] < obj["a"].n THEN {Num(2 * loop.k[1] + 1)} ELSE {})
    ELSE {}

C12_IntegerPositions ==
    obj["a"].comparator = "minus" =>
        \A p \in Touches : IsInteger(p) /\ p[1] >= 1 /\ p[1] <= obj["a"].n

====
